---- MODULE Spec2Model ----
(***************************************************************************)
(* Model of the streaming MCP gateway of golden-rules (src/sse_server.py). *)
(*                                                                         *)
(* handle_mcp runs as asyncio tasks on one event loop.  A task runs        *)
(* without interruption from one suspension to the next, so every action   *)
(* below is the code between two awaits of one task:                       *)
(*   GET  (stream handler): await response.prepare; await response.write / *)
(*        drain of the initialize event; await asyncio.sleep; await        *)
(*        response.write / drain of a ping;                                *)
(*   POST (command):  await request.json(); await sse_response.write /     *)
(*        drain.  The refine_script calls are plain (blocking) calls: the  *)
(*        event loop runs no other task until they return.                 *)
(* A write hands its bytes to the transport before it can suspend, so the  *)
(* event is on the stream when the writing task suspends in write/drain.   *)
(*                                                                         *)
(* The two pure functions of src/refine_script.py, find_top_patterns and   *)
(* generate_prompt, are modelled on their own (SpecRefine): the pattern    *)
(* store, the embeddings and the input are drawn from bounded sets and the *)
(* functions are applied to them.  In Spec the collaborators are the       *)
(* outcomes of RefineReturn.                                               *)
(***************************************************************************)
EXTENDS Integers, Sequences, FiniteSets, TLC

\* ------------------------------------------------------------------ bounds
MaxStreams == 2     \* GET requests (stream opens) in a run
MaxCmds == 2        \* POST requests (commands) in a run
MaxPings == 1       \* keepalive pings written per stream
MaxCats == 4        \* categories in the pattern store

Streams == 1..MaxStreams
Cmds == 1..MaxCmds

\* ------------------------------------------------------------- JSON values
\* Python None / JSON null where it is compared with strings (header, id, method)
None == "<None>"
\* JSON null as the value of "result"
NullResult == [json |-> "null"]

\* str(x) as used by the f-strings
Str(x) == IF x = None THEN "None" ELSE x

Capabilities == [completion |-> TRUE, sampling |-> TRUE, streaming |-> TRUE, context |-> TRUE]

\* text.strip(): drop leading and trailing whitespace
RECURSIVE lstrip(_)
lstrip(s) == IF s # <<>> /\ Head(s) = " " THEN lstrip(Tail(s)) ELSE s

RECURSIVE rstrip(_)
rstrip(s) == IF s # <<>> /\ s[Len(s)] = " " THEN rstrip(SubSeq(s, 1, Len(s) - 1)) ELSE s

\* faulty variant: `if not text:` without the strip
strip_Missing(s) == s

strip(s) == rstrip(lstrip(s))

\* ------------------------------------------------------------------ state
VARIABLES
    clients,      \* the registry: client_id -> stream handler (its response object)
    nextUuid,     \* source of uuid.uuid4()
    gpc,          \* position of each GET handler
    client_id,    \* the client_id local of each GET handler
    alive,        \* the transport of each stream response is open (server's view)
    stream,       \* what has been written on each stream response, in order
    popped,       \* how often each GET handler ran its clients.pop
    cpc,          \* position of each POST handler
    header,       \* the X-Client-ID of a POST whose handler has not read it yet
    afterClose,   \* that header names the client_id of a handler that had ended
                  \* when the POST arrived
    data,         \* the request body read by each POST handler
    fallback,     \* the POST handler took "the only connected client" (line 113)
    target,       \* the stream a POST handler resolved (0: none)
    resp_obj,     \* the resp_obj local of each POST handler
    reply,        \* the HTTP replies returned to the POST caller
    calls,        \* collaborator calls made by each POST handler
    blocked,      \* the POST handler that is inside a blocking collaborator call (0: none)
    patterns,     \* the pattern store: the items (category, examples) in dict order
    embeddings,   \* category_embeddings: the items (category, vector) in dict order
    input_text,   \* the text to refine
    input_emb,    \* sentence_model.encode(input_text)
    top_categories,  \* what find_top_patterns returned
    prompt,       \* what generate_prompt returned
    rpc           \* position of the refinement: "off", "start", "ranked", "composed"

vars == <<clients, nextUuid, gpc, client_id, alive, stream, popped,
          cpc, header, afterClose, data, fallback, target, resp_obj, reply, calls, blocked,
          patterns, embeddings, input_text, input_emb, top_categories, prompt, rpc>>

refineVars == <<patterns, embeddings, input_text, input_emb, top_categories, prompt, rpc>>

getVars == <<clients, nextUuid, gpc, client_id, alive, stream, popped>>
postVars == <<cpc, header, afterClose, data, fallback, target, resp_obj, reply, calls, blocked>>

\* ------------------------------------------------------------ the registry
\* clients[cid] = response
Register(reg, cid, h) == [i \in DOMAIN reg \cup {cid} |-> IF i = cid THEN h ELSE reg[i]]

\* clients.pop(cid, None)
Pop(reg, cid) == [i \in DOMAIN reg \ {cid} |-> reg[i]]

\* faulty variant: every connection gets the same token
uuid4_Fixed == "1"

\* str(uuid.uuid4()): a fresh token
uuid4 == ToString(nextUuid)

\* ------------------------------------------------------------ wire formats
\* f"data: {json.dumps(obj)}\n\n" written by `writer` (0: the stream's own handler)
DataEvent(writer, obj) == [writer |-> writer, kind |-> "data", json |-> obj]

\* b": ping\n\n"
PingEvent == [writer |-> 0, kind |-> "comment", json |-> [ping |-> TRUE]]

init_event(cid) ==
    [jsonrpc |-> "2.0", method |-> "initialize",
     params |-> [capabilities |-> Capabilities, clientId |-> cid]]

NoData == [kind |-> "none"]
NoResp == [none |-> TRUE]
NoCalls == [retrieval |-> 0, compose |-> 0, rewrite |-> 0]

\* the server after module load, before any request
InitServer ==
    /\ clients = <<>>
    /\ nextUuid = 1
    /\ gpc = [h \in Streams |-> "idle"]
    /\ client_id = [h \in Streams |-> None]
    /\ alive = [h \in Streams |-> FALSE]
    /\ stream = [h \in Streams |-> <<>>]
    /\ popped = [h \in Streams |-> 0]
    /\ cpc = [k \in Cmds |-> "idle"]
    /\ header = [k \in Cmds |-> None]
    /\ afterClose = [k \in Cmds |-> FALSE]
    /\ data = [k \in Cmds |-> NoData]
    /\ fallback = [k \in Cmds |-> FALSE]
    /\ target = [k \in Cmds |-> 0]
    /\ resp_obj = [k \in Cmds |-> NoResp]
    /\ reply = [k \in Cmds |-> <<>>]
    /\ calls = [k \in Cmds |-> NoCalls]
    /\ blocked = 0

Init ==
    /\ InitServer
    /\ patterns = <<>>
    /\ embeddings = <<>>
    /\ input_text = <<>>
    /\ input_emb = <<0, 0>>
    /\ top_categories = <<>>
    /\ prompt = <<>>
    /\ rpc = "off"

\* The event loop can run a callback: no handler is inside a blocking call, and
\* the handlers that returned have been retired.
LoopFree == blocked = 0 /\ \A k \in Cmds : cpc[k] # "done"

\* ============================================================ GET handler
\* The handler ends: its response can no longer be written.
EndHandler(h) ==
    /\ gpc' = [gpc EXCEPT ![h] = "done"]
    /\ alive' = [alive EXCEPT ![h] = FALSE]

\* finally: clients.pop(client_id, None)
Finally(h) ==
    /\ clients' = Pop(clients, client_id[h])
    /\ popped' = [popped EXCEPT ![h] = @ + 1]

\* A GET arrives: client_id = str(uuid.uuid4()); the handler suspends in
\* await response.prepare(request).
GetOpen(h) ==
    /\ LoopFree
    /\ gpc[h] = "idle"
    /\ \A g \in Streams : g < h => gpc[g] # "idle"
    /\ client_id' = [client_id EXCEPT ![h] = uuid4]
    /\ nextUuid' = nextUuid + 1
    /\ gpc' = [gpc EXCEPT ![h] = "prepare"]
    /\ alive' = [alive EXCEPT ![h] = TRUE]
    /\ UNCHANGED <<clients, stream, popped>>
    /\ UNCHANGED postVars
    /\ UNCHANGED refineVars

\* faulty variant: the connection is registered and the handler suspends before
\* it has written the initialize event
GetPrepared_NoAnnounce(h) ==
    /\ LoopFree
    /\ gpc[h] = "prepare"
    /\ clients' = Register(clients, client_id[h], h)
    /\ IF alive[h]
       THEN /\ gpc' = [gpc EXCEPT ![h] = "sleep"]
            /\ UNCHANGED alive
       ELSE EndHandler(h)
    /\ UNCHANGED <<nextUuid, client_id, popped, stream>>
    /\ UNCHANGED postVars
    /\ UNCHANGED refineVars

\* prepare returns: clients[client_id] = response, then response.write(init event).
\* On an open transport the event is written and the handler suspends in
\* write/drain.  On a closed transport the write raises outside the try:
\* the handler ends and nothing pops the entry.
GetPrepared(h) ==
    /\ LoopFree
    /\ gpc[h] = "prepare"
    /\ clients' = Register(clients, client_id[h], h)
    /\ IF alive[h]
       THEN /\ stream' = [stream EXCEPT ![h] = Append(@, DataEvent(0, init_event(client_id[h])))]
            /\ gpc' = [gpc EXCEPT ![h] = "init_write"]
            /\ UNCHANGED alive
       ELSE /\ EndHandler(h)
            /\ UNCHANGED stream
    /\ UNCHANGED <<nextUuid, client_id, popped>>
    /\ UNCHANGED postVars
    /\ UNCHANGED refineVars

\* prepare raises (closed transport): nothing was registered.
GetPrepareFails(h) ==
    /\ LoopFree
    /\ gpc[h] = "prepare"
    /\ ~alive[h]
    /\ EndHandler(h)
    /\ UNCHANGED <<clients, nextUuid, client_id, stream, popped>>
    /\ UNCHANGED postVars
    /\ UNCHANGED refineVars

\* write and drain of the initialize event return: the handler enters the try
\* and suspends in asyncio.sleep(15).
InitWritten(h) ==
    /\ LoopFree
    /\ gpc[h] = "init_write"
    /\ gpc' = [gpc EXCEPT ![h] = "sleep"]
    /\ UNCHANGED <<clients, nextUuid, client_id, alive, stream, popped>>
    /\ UNCHANGED postVars
    /\ UNCHANGED refineVars

\* write/drain of the initialize event raises (closed transport): lines 72-73
\* are outside the try, so the finally does not run.
InitWriteFails(h) ==
    /\ LoopFree
    /\ gpc[h] = "init_write"
    /\ ~alive[h]
    /\ EndHandler(h)
    /\ UNCHANGED <<clients, nextUuid, client_id, stream, popped>>
    /\ UNCHANGED postVars
    /\ UNCHANGED refineVars

\* The sleep ends: response.write(b": ping\n\n").  On a closed transport the
\* write raises inside the try: except, finally.
Ping(h) ==
    /\ LoopFree
    /\ gpc[h] = "sleep"
    /\ IF alive[h]
       THEN /\ Len(SelectSeq(stream[h], LAMBDA e : e = PingEvent)) < MaxPings
            /\ stream' = [stream EXCEPT ![h] = Append(@, PingEvent)]
            /\ gpc' = [gpc EXCEPT ![h] = "ping_write"]
            /\ UNCHANGED <<clients, alive, popped>>
       ELSE /\ Finally(h)
            /\ EndHandler(h)
            /\ UNCHANGED stream
    /\ UNCHANGED <<nextUuid, client_id>>
    /\ UNCHANGED postVars
    /\ UNCHANGED refineVars

\* write and drain of the ping return: back to the sleep.
PingWritten(h) ==
    /\ LoopFree
    /\ gpc[h] = "ping_write"
    /\ gpc' = [gpc EXCEPT ![h] = "sleep"]
    /\ UNCHANGED <<clients, nextUuid, client_id, alive, stream, popped>>
    /\ UNCHANGED postVars
    /\ UNCHANGED refineVars

\* write/drain of the ping raises (closed transport): except, finally.
PingWriteFails(h) ==
    /\ LoopFree
    /\ gpc[h] = "ping_write"
    /\ ~alive[h]
    /\ Finally(h)
    /\ EndHandler(h)
    /\ UNCHANGED <<nextUuid, client_id, stream>>
    /\ UNCHANGED postVars
    /\ UNCHANGED refineVars

\* The handler task is cancelled (server shutdown, or the peer's disconnect
\* when the server cancels handlers on disconnect): CancelledError is raised
\* at the await the handler is suspended in.  Inside the try the finally
\* runs; at lines 52 and 72-73 it does not.
GetCancelled(h) ==
    /\ LoopFree
    /\ gpc[h] \in {"prepare", "init_write", "sleep", "ping_write"}
    /\ IF gpc[h] \in {"sleep", "ping_write"}
       THEN Finally(h)
       ELSE UNCHANGED <<clients, popped>>
    /\ EndHandler(h)
    /\ UNCHANGED <<nextUuid, client_id, stream>>
    /\ UNCHANGED postVars
    /\ UNCHANGED refineVars

\* The peer closes the stream: the transport is closed from now on.
PeerDisconnect(h) ==
    /\ LoopFree
    /\ gpc[h] \in {"prepare", "init_write", "sleep", "ping_write"}
    /\ alive[h]
    /\ alive' = [alive EXCEPT ![h] = FALSE]
    /\ UNCHANGED <<clients, nextUuid, gpc, client_id, stream, popped>>
    /\ UNCHANGED postVars
    /\ UNCHANGED refineVars

\* ============================================================ POST handler
\* ------------------------------------------------------------ the requests
METHOD_INITIALIZE == "initialize"
METHOD_SAMPLING == "sampling/createMessage"

\* values of params.text that are strings: whitespace only, and not
Texts == {<<" ">>, <<" ", "a">>}

\* "params": absent; an object whose "text" is not a string; an object with a
\* string "text"
ParamsSet ==
    {[kind |-> "absent"], [kind |-> "nonstring"]} \cup {[kind |-> "text", text |-> t] : t \in Texts}

Envelope(method, id, params) ==
    [kind |-> "object", method |-> method, id |-> id, params |-> params]

\* request bodies of command k: not JSON; JSON that is no object; envelopes
\* with the command's own id (every method, every params); an envelope
\* without "id" and "method"
Bodies(k) ==
    {[kind |-> "malformed"], [kind |-> "nonobject"]}
        \cup {Envelope(m, ToString(k), [kind |-> "absent"]) : m \in {METHOD_INITIALIZE, "foo"}}
        \cup {Envelope(METHOD_SAMPLING, ToString(k), p) : p \in ParamsSet}
        \cup {Envelope(None, None, [kind |-> "absent"])}

\* X-Client-ID: absent, empty, or a token
Headers == {None, ""} \cup {ToString(n) : n \in Streams}

\* ------------------------------------------------------------- the replies
\* faulty variant: every error reply carries id null, as the parse error's does
RpcError_NullId(req_id, code, message) ==
    [jsonrpc |-> "2.0", id |-> None, error |-> [code |-> code, message |-> message]]

RpcError(req_id, code, message) ==
    [jsonrpc |-> "2.0", id |-> req_id, error |-> [code |-> code, message |-> message]]

RpcResult(req_id, result) == [jsonrpc |-> "2.0", id |-> req_id, result |-> result]

\* faulty variant: the parse error reported as an invalid request
ParseErrorResp_InvalidRequest == RpcError(None, -32600, <<"Parse error">>)

ParseErrorResp == RpcError(None, -32700, <<"Parse error">>)

\* faulty variant: the ambiguous selection reported under a code of its own
AmbiguousResp_OwnCode(req_id) ==
    RpcError(req_id, -32001, <<"Client not connected (ambiguous client selection)">>)

AmbiguousResp(req_id) ==
    RpcError(req_id, -32000, <<"Client not connected (ambiguous client selection)">>)

NotConnectedResp(req_id) == RpcError(req_id, -32000, <<"Client not connected">>)

InitializeResp(req_id) == RpcResult(req_id, [capabilities |-> Capabilities])

EmptyTextResp(req_id) == RpcResult(req_id, NullResult)

RefinedResp(req_id, refined_text) ==
    RpcResult(req_id, [items |-> <<[label |-> refined_text, kind |-> 1, detail |-> "Refined text"]>>])

\* faulty variant: the error reply without the cause
RefinementErrorResp_NoCause(req_id, cause) ==
    RpcError(req_id, -32000, <<"Refinement error">>)

RefinementErrorResp(req_id, cause) ==
    RpcError(req_id, -32000, <<"Refinement error: ", cause>>)

\* faulty variant: the message without the method name
MethodNotFoundResp_NoName(req_id, method) ==
    RpcError(req_id, -32601, <<"Method not found">>)

MethodNotFoundResp(req_id, method) ==
    RpcError(req_id, -32601, <<"Method not found: ", Str(method)>>)

\* what the server answers when the handler raises
InternalServerError == [status |-> 500]

\* ------------------------------------------------------------- resolution
\* not client_id
Falsy(h) == h = None \/ h = ""

\* faulty variant: without a client id, take a registered connection whenever there is one
Resolve_AnyRegistered(hd, req_id) ==
    IF Falsy(hd)
    THEN IF Cardinality(DOMAIN clients) >= 1
         THEN [ok |-> TRUE, client_id |-> CHOOSE c \in DOMAIN clients : TRUE]
         ELSE [ok |-> FALSE, error |-> AmbiguousResp(req_id)]
    ELSE IF hd \notin DOMAIN clients
         THEN [ok |-> FALSE, error |-> NotConnectedResp(req_id)]
         ELSE [ok |-> TRUE, client_id |-> hd]

\* faulty variant: an unknown client id falls back to the only connected client
Resolve_UnknownFallsBack(hd, req_id) ==
    IF Falsy(hd) \/ hd \notin DOMAIN clients
    THEN IF Cardinality(DOMAIN clients) = 1
         THEN [ok |-> TRUE, client_id |-> CHOOSE c \in DOMAIN clients : TRUE]
         ELSE [ok |-> FALSE, error |-> AmbiguousResp(req_id)]
    ELSE [ok |-> TRUE, client_id |-> hd]

\* lines 110-135: the client_id a request resolves to, or the error reply
Resolve(hd, req_id) ==
    IF Falsy(hd)
    THEN IF Cardinality(DOMAIN clients) = 1
         THEN [ok |-> TRUE, client_id |-> CHOOSE c \in DOMAIN clients : TRUE]
         ELSE [ok |-> FALSE, error |-> AmbiguousResp(req_id)]
    ELSE IF hd \notin DOMAIN clients
         THEN [ok |-> FALSE, error |-> NotConnectedResp(req_id)]
         ELSE [ok |-> TRUE, client_id |-> hd]

\* params.get("text", "")
TextOf(params) == IF params.kind = "text" THEN params.text ELSE <<>>

\* ---------------------------------------------------------------- actions
\* return web.json_response(r), or the handler raised and the server answers
Return(k, r) ==
    /\ reply' = [reply EXCEPT ![k] = Append(@, r)]
    /\ cpc' = [cpc EXCEPT ![k] = "done"]

\* faulty variant: the event is written on every open stream
Push_Broadcast(k, h, r) ==
    /\ resp_obj' = [resp_obj EXCEPT ![k] = r]
    /\ UNCHANGED clients
    /\ IF alive[h]
       THEN /\ stream' = [g \in Streams |->
                   IF alive[g] THEN Append(stream[g], DataEvent(k, r)) ELSE stream[g]]
            /\ cpc' = [cpc EXCEPT ![k] = "push"]
            /\ UNCHANGED reply
       ELSE /\ Return(k, r)
            /\ UNCHANGED stream

\* faulty variant: a failed push removes the connection from the registry
Push_TearsDown(k, h, r) ==
    /\ resp_obj' = [resp_obj EXCEPT ![k] = r]
    /\ IF alive[h]
       THEN /\ stream' = [stream EXCEPT ![h] = Append(@, DataEvent(k, r))]
            /\ cpc' = [cpc EXCEPT ![k] = "push"]
            /\ UNCHANGED <<reply, clients>>
       ELSE /\ Return(k, r)
            /\ clients' = Pop(clients, client_id[h])
            /\ UNCHANGED stream

\* lines 191-197: sse_response.write(payload).  On an open transport the event
\* is written and the handler suspends in write/drain; on a closed one the
\* write raises, the except logs it and the handler returns.  Neither branch
\* touches the registry.
Push(k, h, r) ==
    /\ resp_obj' = [resp_obj EXCEPT ![k] = r]
    /\ UNCHANGED clients
    /\ IF alive[h]
       THEN /\ stream' = [stream EXCEPT ![h] = Append(@, DataEvent(k, r))]
            /\ cpc' = [cpc EXCEPT ![k] = "push"]
            /\ UNCHANGED reply
       ELSE /\ Return(k, r)
            /\ UNCHANGED stream

\* A POST arrives with its headers; the handler suspends in await request.json().
PostArrive(k) ==
    /\ LoopFree
    /\ cpc[k] = "idle"
    /\ \A j \in Cmds : j < k => cpc[j] # "idle"
    /\ \E hd \in Headers :
        /\ header' = [header EXCEPT ![k] = hd]
        /\ afterClose' = [afterClose EXCEPT ![k] =
               \E h \in Streams : gpc[h] = "done" /\ client_id[h] = hd]
    /\ cpc' = [cpc EXCEPT ![k] = "read"]
    /\ UNCHANGED <<data, fallback, target, resp_obj, reply, calls, blocked>>
    /\ UNCHANGED getVars
    /\ UNCHANGED refineVars

\* lines 139-189 without the refinement itself: the reply of a resolved command
Dispatch(body) ==
    IF body.method = METHOD_INITIALIZE
    THEN InitializeResp(body.id)
    ELSE IF body.method = METHOD_SAMPLING
         THEN EmptyTextResp(body.id)
         ELSE MethodNotFoundResp(body.id, body.method)

\* the handler raises on this body after it resolved a connection (lines 153-154)
Raises(body) ==
    /\ body.method = METHOD_SAMPLING
    /\ body.params.kind = "nonstring"

\* the refinement runs (line 157 else-branch)
Refines(body) ==
    /\ body.method = METHOD_SAMPLING
    /\ ~Raises(body)
    /\ strip(TextOf(body.params)) # <<>>

\* request.json() returns or raises: the handler runs to its next suspension.
PostHandle(k) ==
    /\ LoopFree
    /\ cpc[k] = "read"
    /\ \E body \in Bodies(k) :
        /\ data' = [data EXCEPT ![k] = body]
        /\ IF body.kind = "malformed"
           THEN /\ Return(k, ParseErrorResp)
                /\ UNCHANGED <<fallback, target, resp_obj, stream, blocked, clients>>
           ELSE IF body.kind = "nonobject"
           THEN /\ Return(k, InternalServerError)
                /\ UNCHANGED <<fallback, target, resp_obj, stream, blocked, clients>>
           ELSE LET r == Resolve(header[k], body.id) IN
                IF ~r.ok
                THEN /\ Return(k, r.error)
                     /\ UNCHANGED <<fallback, target, resp_obj, stream, blocked, clients>>
                ELSE /\ target' = [target EXCEPT ![k] = clients[r.client_id]]
                     /\ fallback' = [fallback EXCEPT ![k] = Falsy(header[k])]
                     /\ IF Raises(body)
                        THEN /\ Return(k, InternalServerError)
                             /\ UNCHANGED <<resp_obj, stream, blocked, clients>>
                        ELSE IF Refines(body)
                        THEN /\ blocked' = k
                             /\ cpc' = [cpc EXCEPT ![k] = "refine"]
                             /\ UNCHANGED <<resp_obj, stream, reply, clients>>
                        ELSE /\ Push(k, clients[r.client_id], Dispatch(body))
                             /\ UNCHANGED blocked
    /\ header' = [header EXCEPT ![k] = None]
    /\ afterClose' = [afterClose EXCEPT ![k] = FALSE]
    /\ UNCHANGED calls
    /\ UNCHANGED <<nextUuid, gpc, client_id, alive, popped>>
    /\ UNCHANGED refineVars

\* how the three collaborator calls of lines 160-162 end
Outcomes == {"ok", "retrieval fails", "compose fails", "rewrite fails"}

\* calls made up to the end of the refinement
CallsOf(outcome) ==
    [retrieval |-> 1,
     compose |-> IF outcome = "retrieval fails" THEN 0 ELSE 1,
     rewrite |-> IF outcome \in {"retrieval fails", "compose fails"} THEN 0 ELSE 1]

\* lines 158-180
RefineResp(req_id, outcome) ==
    IF outcome = "ok"
    THEN RefinedResp(req_id, "refined")
    ELSE RefinementErrorResp(req_id, outcome)

\* The blocking collaborator calls end (they return, or one raises): the
\* handler builds resp_obj and goes on to the push.
RefineReturn(k) ==
    /\ blocked = k
    /\ cpc[k] = "refine"
    /\ \A j \in Cmds : cpc[j] # "done"
    /\ \E outcome \in Outcomes :
        /\ calls' = [calls EXCEPT ![k] = CallsOf(outcome)]
        /\ Push(k, target[k], RefineResp(data[k].id, outcome))
    /\ blocked' = 0
    /\ UNCHANGED <<header, afterClose, data, fallback, target>>
    /\ UNCHANGED <<nextUuid, gpc, client_id, alive, popped>>
    /\ UNCHANGED refineVars

\* write and drain of the pushed event end (they return, or raise into the
\* except): return web.json_response(resp_obj).
PushDone(k) ==
    /\ LoopFree
    /\ cpc[k] = "push"
    /\ Return(k, resp_obj[k])
    /\ UNCHANGED <<header, afterClose, data, fallback, target, resp_obj, calls, blocked>>
    /\ UNCHANGED getVars
    /\ UNCHANGED refineVars

\* The caller has its reply: the handler's frame is released.
Retire(k) ==
    /\ cpc[k] = "done"
    /\ cpc' = [cpc EXCEPT ![k] = "retired"]
    /\ data' = [data EXCEPT ![k] = NoData]
    /\ fallback' = [fallback EXCEPT ![k] = FALSE]
    /\ target' = [target EXCEPT ![k] = 0]
    /\ resp_obj' = [resp_obj EXCEPT ![k] = NoResp]
    /\ reply' = [reply EXCEPT ![k] = <<>>]
    /\ calls' = [calls EXCEPT ![k] = NoCalls]
    /\ UNCHANGED <<header, afterClose, blocked>>
    /\ UNCHANGED getVars
    /\ UNCHANGED refineVars

\* ------------------------------------------------------- the specification
Next ==
    \/ \E h \in Streams : GetOpen(h)
    \/ \E h \in Streams : GetPrepared(h)
    \/ \E h \in Streams : GetPrepareFails(h)
    \/ \E h \in Streams : InitWritten(h)
    \/ \E h \in Streams : InitWriteFails(h)
    \/ \E h \in Streams : Ping(h)
    \/ \E h \in Streams : PingWritten(h)
    \/ \E h \in Streams : PingWriteFails(h)
    \/ \E h \in Streams : GetCancelled(h)
    \/ \E h \in Streams : PeerDisconnect(h)
    \/ \E k \in Cmds : PostArrive(k)
    \/ \E k \in Cmds : PostHandle(k)
    \/ \E k \in Cmds : RefineReturn(k)
    \/ \E k \in Cmds : PushDone(k)
    \/ \E k \in Cmds : Retire(k)

Spec == Init /\ [][Next]_vars

\* ===================================================== src/refine_script.py
TOP_N_PATTERNS == 3

GOLDEN_RULES == "golden rules"

\* the category labels, named by their number
Label(i) == ToString(i)

\* embedding vectors (what sentence_model.encode and the mean of it give):
\* <<1, 1>> and <<2, 2>> point the same way, <<-1, 0>> the opposite way of <<1, 0>>
Vectors == {<<1, 0>>, <<0, 1>>, <<1, 1>>, <<2, 2>>, <<-1, 0>>}

\* the texts that reach the refinement (not blank)
InputTexts == {<<"a">>, <<" ", "a">>}

\* the i-th PatternExample stored under a category
Example(cat, i) ==
    [description |-> <<"description", cat, i>>,
     steps |-> << <<"step 1", cat, i>>, <<"step 2", cat, i>> >>,
     example_before |-> <<"before", cat, i>>,
     example_after |-> <<"after", cat, i>>]

\* the pattern stores: n categories, enumerated in either order of their
\* labels, with one or two examples each
Stores ==
    UNION {{[i \in 1..n |->
                LET c == IF up THEN i ELSE n + 1 - i IN
                [cat |-> Label(c),
                 examples |-> IF c % 2 = 1
                              THEN <<Example(Label(c), 1), Example(Label(c), 2)>>
                              ELSE <<Example(Label(c), 1)>>]]
            : up \in BOOLEAN} : n \in 0..MaxCats}

\* compute_category_embeddings: one vector per category, in the order of the store
EmbeddingsOf(store) ==
    {[i \in 1..Len(store) |-> [cat |-> store[i].cat, emb |-> v[i]]]
        : v \in [1..Len(store) -> Vectors]}

\* patterns[cat]
Lookup(store, cat) ==
    (CHOOSE i \in 1..Len(store) : store[i].cat = cat)

\* np.dot(a, b)
Dot(a, b) == a[1] * b[1] + a[2] * b[2]

\* np.linalg.norm(a) ** 2
Norm2(a) == Dot(a, a)

\* similarity: np.dot(input_emb, emb) / (norm(input_emb) * norm(emb)), kept as
\* the pair (dot product, squared norm of emb); the norm of input_emb is the
\* same positive factor in every similarity of one ranking
Similarity(inp, emb) == [dot |-> Dot(inp, emb), n2 |-> Norm2(emb)]

\* x > y for two similarities: dot_x / sqrt(n2_x) > dot_y / sqrt(n2_y)
Greater(x, y) ==
    IF x.dot >= 0 /\ y.dot < 0 THEN TRUE
    ELSE IF x.dot < 0 /\ y.dot >= 0 THEN FALSE
    ELSE IF x.dot >= 0
         THEN x.dot * x.dot * y.n2 > y.dot * y.dot * x.n2
         ELSE x.dot * x.dot * y.n2 < y.dot * y.dot * x.n2

\* faulty variant: an item goes before the items of equal similarity
Insert_BeforeTies(item, sorted) ==
    LET before == SelectSeq(sorted, LAMBDA e : Greater(e.similarity, item.similarity))
        after == SelectSeq(sorted, LAMBDA e : ~Greater(e.similarity, item.similarity))
    IN  before \o <<item>> \o after

\* list.sort(key=..., reverse=True) is stable: an item goes after every item
\* that is not smaller and was there before it
Insert(item, sorted) ==
    LET before == SelectSeq(sorted, LAMBDA e : ~Greater(item.similarity, e.similarity))
        after == SelectSeq(sorted, LAMBDA e : Greater(item.similarity, e.similarity))
    IN  before \o <<item>> \o after

RECURSIVE SortDescending(_)
SortDescending(similarities) ==
    IF similarities = <<>> THEN <<>>
    ELSE Insert(similarities[Len(similarities)],
                SortDescending(SubSeq(similarities, 1, Len(similarities) - 1)))

\* similarities[:top_n]
Take(seq, n) == SubSeq(seq, 1, IF Len(seq) < n THEN Len(seq) ELSE n)

\* lines 44-51
find_top_patterns(inp, category_embeddings, top_n) ==
    LET similarities == [i \in 1..Len(category_embeddings) |->
                            [cat |-> category_embeddings[i].cat,
                             similarity |-> Similarity(inp, category_embeddings[i].emb)]]
        ranked == Take(SortDescending(similarities), top_n)
    IN  [i \in 1..Len(ranked) |-> ranked[i].cat]

\* faulty variant: the block is taken from the last example of the category
Exemplar_Last(store, cat) ==
    store[Lookup(store, cat)].examples[Len(store[Lookup(store, cat)].examples)]

\* ex = patterns[cat][0]
Exemplar(store, cat) == store[Lookup(store, cat)].examples[1]

\* lines 57-68: the instruction block of one category
Instruction(store, cat) ==
    LET ex == Exemplar(store, cat) IN
    [part |-> "instruction",
     cat |-> cat,
     description |-> ex.description,
     steps |-> [i \in 1..Len(ex.steps) |-> <<"- ", ex.steps[i]>>],
     example_before |-> ex.example_before,
     example_after |-> ex.example_after]

\* lines 53-86: the prompt, part by part
generate_prompt(text, selected_categories, store) ==
    << [part |-> "task"], [part |-> "golden rules", text |-> GOLDEN_RULES] >>
        \o [i \in 1..Len(selected_categories) |-> Instruction(store, selected_categories[i])]
        \o << [part |-> "input", text |-> text], [part |-> "output only"] >>

\* The module is loaded (lines 13-14 of sse_server.py) and a text arrives.
InitRefine ==
    /\ InitServer
    /\ patterns \in Stores
    /\ embeddings \in EmbeddingsOf(patterns)
    /\ input_text \in InputTexts
    /\ input_emb \in Vectors
    /\ top_categories = <<>>
    /\ prompt = <<>>
    /\ rpc = "start"

\* top_categories = refine_script.find_top_patterns(text, embeddings)
Rank ==
    /\ rpc = "start"
    /\ top_categories' = find_top_patterns(input_emb, embeddings, TOP_N_PATTERNS)
    /\ rpc' = "ranked"
    /\ UNCHANGED <<patterns, embeddings, input_text, input_emb, prompt>>
    /\ UNCHANGED <<getVars, postVars>>

\* prompt = refine_script.generate_prompt(text, top_categories, patterns)
Compose ==
    /\ rpc = "ranked"
    /\ prompt' = generate_prompt(input_text, top_categories, patterns)
    /\ rpc' = "composed"
    /\ UNCHANGED <<patterns, embeddings, input_text, input_emb, top_categories>>
    /\ UNCHANGED <<getVars, postVars>>

NextRefine == Rank \/ Compose

SpecRefine == InitRefine /\ [][NextRefine]_vars

\* ================================================================= claims
\* the step in which the POST handler k reads its body and runs on
Handled(k) == cpc[k] = "read" /\ cpc'[k] # "read"

\* r is a JSON-RPC error reply with this code
IsError(r, code) == "error" \in DOMAIN r /\ r.error.code = code

\* the message (a sequence of pieces) contains the piece
Contains(message, piece) == \E i \in 1..Len(message) : message[i] = piece

\* the events that command k wrote on stream h, in the streams st
EventsIn(st, k, h) == SelectSeq(st[h], LAMBDA e : e.writer = k)

EventsOf(k, h) == EventsIn(stream, k, h)

\* command k has returned this reply
Replied(k, r) == cpc[k] = "done" /\ reply[k] = <<r>>

\* the command's text is missing, empty or whitespace-only
BlankSampling(body) ==
    /\ body.kind = "object"
    /\ body.method = METHOD_SAMPLING
    /\ \/ body.params.kind = "absent"
       \/ /\ body.params.kind = "text"
          /\ \A i \in 1..Len(body.params.text) : body.params.text[i] = " "

\* C1: a command (an envelope) submitted with no client id (header absent or
\* empty) resolves to the registered connection when exactly one is
\* registered; otherwise it returns error -32000 at once: no method handler
\* runs (no resp_obj, no collaborator call) and nothing is written on a stream.
C1_SoleConnection ==
    [][\A k \in Cmds :
          (Handled(k) /\ Falsy(header[k]) /\ data'[k].kind = "object") =>
              IF Cardinality(DOMAIN clients) = 1
              THEN /\ fallback'[k]
                   /\ \E c \in DOMAIN clients : target'[k] = clients[c]
              ELSE /\ cpc'[k] = "done"
                   /\ Len(reply'[k]) = 1
                   /\ IsError(reply'[k][1], -32000)
                   /\ target'[k] = 0
                   /\ resp_obj'[k] = NoResp
                   /\ calls'[k] = NoCalls
                   /\ blocked' = 0
                   /\ stream' = stream]_vars

\* C1 witness: one command took the only connection, another was refused
\* while two connections were registered.
C1_Witness ==
    /\ Cardinality(DOMAIN clients) = 2
    /\ \E k \in Cmds : cpc[k] = "push" /\ fallback[k] /\ target[k] # 0
    /\ \E k \in Cmds :
           data[k].kind = "object" /\ Replied(k, AmbiguousResp(data[k].id))

\* C2: a command with an explicit client id resolves to exactly the connection
\* registered under that id, whatever else is registered; if the id is not
\* registered it returns error -32000 and resolves to nothing.
C2_ExplicitId ==
    [][\A k \in Cmds :
          (Handled(k) /\ ~Falsy(header[k]) /\ data'[k].kind = "object") =>
              IF header[k] \in DOMAIN clients
              THEN /\ target'[k] = clients[header[k]]
                   /\ ~fallback'[k]
              ELSE /\ cpc'[k] = "done"
                   /\ reply'[k] = <<NotConnectedResp(data'[k].id)>>
                   /\ IsError(reply'[k][1], -32000)
                   /\ target'[k] = 0
                   /\ stream' = stream]_vars

\* C2 witness: one command resolved by its explicit id; another, naming an id
\* that is not registered while exactly one connection is, was refused.
C2_Witness ==
    /\ Cardinality(DOMAIN clients) = 1
    /\ \E k \in Cmds : cpc[k] = "push" /\ ~fallback[k] /\ target[k] # 0
    /\ \E k \in Cmds :
           data[k].kind = "object" /\ Replied(k, NotConnectedResp(data[k].id))

\* the handler h holds a registered connection (registered, not yet ended)
Open(h) == gpc[h] \in {"init_write", "sleep", "ping_write"}

\* C3: distinct stream opens have distinct client ids, and every open
\* connection is the one the registry holds under its id until its own handler
\* ends, whatever other connections open or close.
C3_DistinctAndResolvable ==
    /\ \A g, h \in Streams :
           (g # h /\ gpc[g] # "idle" /\ gpc[h] # "idle") => client_id[g] # client_id[h]
    /\ \A h \in Streams :
           Open(h) => (client_id[h] \in DOMAIN clients /\ clients[client_id[h]] = h)

\* C3 witness: a connection is still registered after an earlier one was
\* closed and deregistered, and after a later one was opened.
C3_Witness ==
    \E g, h \in Streams :
        /\ g # h
        /\ gpc[g] = "done" /\ popped[g] = 1
        /\ Open(h) /\ clients[client_id[h]] = h

\* C4: a command that arrives after a stream's handler has ended and names
\* the stream's client id gets the not-found error, resolves to nothing and
\* writes nothing.
C4_NotFoundAfterClose ==
    [][\A k \in Cmds :
          (Handled(k) /\ afterClose[k] /\ data'[k].kind = "object") =>
              /\ reply'[k] = <<NotConnectedResp(data'[k].id)>>
              /\ target'[k] = 0
              /\ stream' = stream]_vars

\* C5: a stream handler pops its registration at most once, and no handler
\* that has ended leaves its client id in the registry.
C5_DeregisteredOnEnd ==
    \A h \in Streams :
        /\ popped[h] <= 1
        /\ gpc[h] = "done" => client_id[h] \notin DOMAIN clients

\* C6: a body that is not JSON is answered with error -32700 at once: nothing
\* is resolved, the registry is unchanged and nothing is written on a stream,
\* whatever is registered and whatever header came with it.
C6_ParseError ==
    [][\A k \in Cmds :
          (Handled(k) /\ data'[k].kind = "malformed") =>
              /\ cpc'[k] = "done"
              /\ Len(reply'[k]) = 1
              /\ IsError(reply'[k][1], -32700)
              /\ target'[k] = 0
              /\ ~fallback'[k]
              /\ clients' = clients
              /\ stream' = stream]_vars

\* C6 witness: a parse error was returned while a connection was registered.
C6_Witness ==
    \E k \in Cmds :
        /\ cpc[k] = "done" /\ data[k].kind = "malformed"
        /\ IsError(reply[k][1], -32700)
        /\ clients # <<>>

\* the method of the envelope is none of the two the dispatcher knows
UnknownMethod(body) ==
    body.kind = "object" /\ body.method \notin {METHOD_INITIALIZE, METHOD_SAMPLING}

\* the reply is error -32601 and its message contains the method name
IsMethodNotFound(r, method) ==
    IsError(r, -32601) /\ Contains(r.error.message, Str(method))

\* C7 as claimed: every command with an unknown method name is answered with
\* error -32601 naming the method.
C7_Original ==
    \A k \in Cmds :
        (cpc[k] = "done" /\ UnknownMethod(data[k])) =>
            (Len(reply[k]) = 1 /\ IsMethodNotFound(reply[k][1], data[k].method))

\* C7 amended: every command that resolved a connection and has an unknown
\* method name is answered with error -32601 naming the method.
C7_MethodNotFound ==
    \A k \in Cmds :
        (cpc[k] = "done" /\ UnknownMethod(data[k]) /\ target[k] # 0) =>
            (Len(reply[k]) = 1 /\ IsMethodNotFound(reply[k][1], data[k].method))

\* C7 witness: a resolved command with the method "foo" got its reply.
C7_Witness ==
    \E k \in Cmds :
        /\ cpc[k] = "done" /\ target[k] # 0
        /\ data[k].kind = "object" /\ data[k].method = "foo"
        /\ Len(reply[k]) = 1 /\ IsError(reply[k][1], -32601)

\* C8 as claimed: every refinement command with a blank text is answered with
\* result null, and made no collaborator call.
C8_Original ==
    \A k \in Cmds :
        (cpc[k] = "done" /\ BlankSampling(data[k])) =>
            /\ Len(reply[k]) = 1
            /\ "result" \in DOMAIN reply[k][1]
            /\ reply[k][1].result = NullResult
            /\ calls[k] = NoCalls

\* C8 amended: a refinement command with a blank text makes no collaborator
\* call, and if it resolved a connection it is answered with result null.
C8_BlankText ==
    \A k \in Cmds :
        BlankSampling(data[k]) =>
            /\ calls[k] = NoCalls
            /\ cpc[k] # "refine"
            /\ (cpc[k] = "done" /\ target[k] # 0) =>
                   /\ Len(reply[k]) = 1
                   /\ "result" \in DOMAIN reply[k][1]
                   /\ reply[k][1].result = NullResult

\* C8 witness: a resolved refinement command with a whitespace-only text got
\* its reply.
C8_Witness ==
    \E k \in Cmds :
        /\ cpc[k] = "done" /\ target[k] # 0
        /\ BlankSampling(data[k]) /\ data[k].params.kind = "text"
        /\ reply[k] = <<EmptyTextResp(data[k].id)>>
        /\ calls[k] = NoCalls

\* r is a JSON-RPC reply with exactly one of result and error
IsRpcReply(r) ==
    /\ "jsonrpc" \in DOMAIN r
    /\ ("result" \in DOMAIN r) # ("error" \in DOMAIN r)

\* C9: every command that has returned produced exactly one reply, a JSON-RPC
\* reply with exactly one of result and error.
C9_OneReply ==
    \A k \in Cmds :
        cpc[k] = "done" => (Len(reply[k]) = 1 /\ IsRpcReply(reply[k][1]))

\* C10 as claimed: a command that resolved a connection has written exactly
\* one data event on that connection's stream, equal to its HTTP reply, and
\* none on another stream.
C10_Original ==
    \A k \in Cmds :
        (cpc[k] = "done" /\ target[k] # 0) =>
            \A h \in Streams :
                IF h = target[k]
                THEN EventsOf(k, h) = <<DataEvent(k, reply[k][1])>>
                ELSE EventsOf(k, h) = <<>>

\* the step in which command k has its resp_obj and pushes it
Pushes(k) ==
    /\ cpc[k] \in {"read", "refine"}
    /\ cpc'[k] \in {"push", "done"}
    /\ resp_obj'[k] # NoResp

\* C10 amended: a command that resolved a connection writes at most one data
\* event on that connection's stream and none on another; the event equals the
\* reply returned over HTTP; and it is written whenever the command has a
\* reply to push and the stream's transport is open.
C10_OnePush ==
    [][\A k \in Cmds :
          /\ (cpc'[k] \in {"push", "done"} /\ target'[k] # 0) =>
                 \A h \in Streams :
                     /\ Len(EventsIn(stream', k, h)) <= (IF h = target'[k] THEN 1 ELSE 0)
                     /\ \A i \in 1..Len(EventsIn(stream', k, h)) :
                            /\ EventsIn(stream', k, h)[i].kind = "data"
                            /\ EventsIn(stream', k, h)[i].json = resp_obj'[k]
                            /\ cpc'[k] = "done" => reply'[k] = <<resp_obj'[k]>>
          /\ (Pushes(k) /\ alive[target'[k]]) =>
                 Len(EventsIn(stream', k, target'[k])) = 1]_vars

\* C10 witness: a command returned the reply it had written on its stream.
C10_Witness ==
    \E k \in Cmds :
        /\ cpc[k] = "done" /\ target[k] # 0
        /\ EventsOf(k, target[k]) = <<DataEvent(k, reply[k][1])>>

\* the step in which command k, an envelope, fails to resolve a connection
ResolutionFails(k) ==
    /\ Handled(k)
    /\ data'[k].kind = "object"
    /\ target'[k] = 0

\* a header of the other kind (explicit id against none given) with which the
\* resolution fails as well against the same registry
OtherFailure(k, hd) ==
    /\ Falsy(hd) # Falsy(header[k])
    /\ ~Resolve(hd, data'[k].id).ok

\* C11 as claimed: the reply to an ambiguous resolution and the reply to a
\* not-found resolution carry different error codes.
C11_Original ==
    [][\A k \in Cmds : ResolutionFails(k) =>
          \A hd \in Headers : OtherFailure(k, hd) =>
              reply'[k][1].error.code # Resolve(hd, data'[k].id).error.error.code]_vars

\* C11 amended: both resolution failures are answered with the same error
\* code, -32000, and differ in their message only.
C11_SameCode ==
    [][\A k \in Cmds : ResolutionFails(k) =>
          /\ Len(reply'[k]) = 1
          /\ IsError(reply'[k][1], -32000)
          /\ Contains(reply'[k][1].error.message,
                      "Client not connected (ambiguous client selection)")
                 = Falsy(header[k])
          /\ \A hd \in Headers : OtherFailure(k, hd) =>
                 /\ reply'[k][1].error.code = Resolve(hd, data'[k].id).error.error.code
                 /\ reply'[k][1].error.message
                        # Resolve(hd, data'[k].id).error.error.message]_vars

\* C11 witness: a command without client id was refused while no connection
\* was registered, so that a command naming any client id is refused too.
C11_Witness ==
    \E k \in Cmds :
        /\ data[k].kind = "object"
        /\ Replied(k, AmbiguousResp(data[k].id))
        /\ clients = <<>>
        /\ \E h \in Streams : gpc[h] = "done" /\ popped[h] = 1

\* the step in which command k pushes its reply and the write fails
PushFails(k) == Pushes(k) /\ ~alive[target'[k]]

\* C12: when the push of a reply on the resolved stream fails, the connection
\* is removed from the registry, and the event is not written (then or later).
C12_TornDown ==
    [][\A k \in Cmds :
          /\ PushFails(k) =>
                 /\ client_id[target'[k]] \notin DOMAIN clients'
                 /\ EventsIn(stream', k, target'[k]) = <<>>
          /\ (cpc[k] = "done" /\ target[k] # 0) =>
                 EventsIn(stream', k, target[k]) = EventsOf(k, target[k])]_vars

\* the tasks suspended between the start and the completion of a write on
\* stream h (0: the stream's own handler)
Writing(h) ==
    (IF gpc[h] \in {"init_write", "ping_write"} THEN {0} ELSE {})
        \cup {k \in Cmds : cpc[k] = "push" /\ target[k] = h}

\* C13: at no time are two tasks both between the start and the completion of
\* a write on the same stream.
C13_Serialized == \A h \in Streams : Cardinality(Writing(h)) <= 1

\* C14: the first event on every stream is the initialize event carrying the
\* client id under which the connection is registered; a stream a command
\* resolved to, or whose handler is past the announcement, has it first.
C14_InitFirst ==
    \A h \in Streams :
        /\ stream[h] # <<>> =>
               /\ stream[h][1].writer = 0
               /\ stream[h][1].kind = "data"
               /\ stream[h][1].json.method = "initialize"
               /\ stream[h][1].json.params.clientId = client_id[h]
               /\ \/ gpc[h] = "done"
                  \/ /\ client_id[h] \in DOMAIN clients
                     /\ clients[stream[h][1].json.params.clientId] = h
        /\ gpc[h] \in {"sleep", "ping_write"} => stream[h] # <<>>
        /\ \A i \in 2..Len(stream[h]) :
               ~(stream[h][i].kind = "data" /\ stream[h][i].writer = 0)

\* C14 witness: a command resolved to a connection whose handler was still
\* writing the initialize event, and its reply is the second event.
C14_Witness ==
    \E h \in Streams : \E k \in Cmds :
        /\ gpc[h] = "init_write"
        /\ cpc[k] = "push" /\ target[k] = h
        /\ Len(stream[h]) = 2
        /\ stream[h][1] = DataEvent(0, init_event(client_id[h]))
        /\ stream[h][2].writer = k

\* the keepalive of stream h is due: its handler sleeps on an open transport
KeepaliveDue(h) ==
    /\ gpc[h] = "sleep"
    /\ alive[h]
    /\ Len(SelectSeq(stream[h], LAMBDA e : e.kind = "comment")) < MaxPings

\* C15: while a refinement command is inside a collaborator call, the
\* keepalive of every other open connection can still write its ping.
C15_KeepaliveRuns ==
    \A k \in Cmds : cpc[k] = "refine" =>
        \A h \in Streams : (h # target[k] /\ KeepaliveDue(h)) => ENABLED Ping(h)

\* the step in which the refinement of command k ends with a failed
\* collaborator call
RefinementFails(k) ==
    /\ cpc[k] = "refine"
    /\ cpc'[k] # "refine"
    /\ "error" \in DOMAIN resp_obj'[k]

\* the collaborator that failed, from the calls that were made
FailedCall(k) ==
    IF calls'[k].compose = 0 THEN "retrieval fails"
    ELSE IF calls'[k].rewrite = 0 THEN "compose fails"
    ELSE "rewrite fails"

\* the reply is error -32000 and its message includes the cause
IsRefinementError(r, cause) == IsError(r, -32000) /\ Contains(r.error.message, cause)

\* C16 as claimed: a failed collaborator call yields error -32000 with the
\* cause in its message; the registry is untouched and still holds the target,
\* the error is written on the target's stream, and the event loop is free to
\* serve the next command.
C16_Original ==
    [][\A k \in Cmds : RefinementFails(k) =>
          /\ IsRefinementError(resp_obj'[k], FailedCall(k))
          /\ clients' = clients
          /\ clients'[client_id[target[k]]] = target[k]
          /\ blocked' = 0
          /\ Len(EventsIn(stream', k, target[k])) = 1
          /\ EventsIn(stream', k, target[k])[1].json = resp_obj'[k]]_vars

\* C16 amended: as claimed, but the error is written on the target's stream
\* when the stream's transport is open at the push; the caller gets the error
\* in either case.
C16_Confined ==
    [][\A k \in Cmds : RefinementFails(k) =>
          /\ IsRefinementError(resp_obj'[k], FailedCall(k))
          /\ resp_obj'[k].id = data[k].id
          /\ clients' = clients
          /\ clients'[client_id[target[k]]] = target[k]
          /\ blocked' = 0
          /\ IF alive[target[k]]
             THEN /\ cpc'[k] = "push"
                  /\ Len(EventsIn(stream', k, target[k])) = 1
                  /\ EventsIn(stream', k, target[k])[1].json = resp_obj'[k]
             ELSE /\ reply'[k] = <<resp_obj'[k]>>
                  /\ stream' = stream]_vars

\* C16 witness: after a command's refinement failed and the error was written
\* on its stream, a later command resolved to the same connection, wrote its
\* reply there and returned it.
C16_Witness ==
    \E h \in Streams : \E i, j \in 1..(MaxCmds + MaxPings + 1) :
        /\ i < j /\ j <= Len(stream[h])
        /\ stream[h][i].writer = 1
        /\ IsError(stream[h][i].json, -32000)
        /\ Contains(stream[h][i].json.error.message, "Refinement error: ")
        /\ stream[h][j].writer = 2
        /\ cpc[2] = "done" /\ target[2] = h
        /\ reply[2] = <<stream[h][j].json>>
        /\ client_id[h] \in DOMAIN clients

\* the step belongs to a POST handler
CommandStep == cpc' # cpc

\* C19: no step of a POST handler changes the registry; the registry changes
\* only when a stream handler registers its own fresh id or when an ending
\* stream handler removes its own id.
C19_RegistryFrame ==
    [][/\ CommandStep => clients' = clients
       /\ clients' # clients =>
              \E h \in Streams :
                  \/ /\ gpc[h] = "prepare"
                     /\ client_id[h] \notin DOMAIN clients
                     /\ DOMAIN clients' = DOMAIN clients \cup {client_id[h]}
                     /\ clients'[client_id[h]] = h
                     /\ \A c \in DOMAIN clients : clients'[c] = clients[c]
                  \/ /\ gpc[h] # "done" /\ gpc'[h] = "done"
                     /\ DOMAIN clients' = DOMAIN clients \ {client_id[h]}
                     /\ \A c \in DOMAIN clients' : clients'[c] = clients[c]]_vars

\* C19 witness: a command returned after its push failed on a closed
\* transport, and the connection it resolved is still registered.
C19_Witness ==
    \E k \in Cmds :
        /\ cpc[k] = "done" /\ target[k] # 0
        /\ resp_obj[k] # NoResp
        /\ EventsOf(k, target[k]) = <<>>
        /\ ~alive[target[k]]
        /\ clients[client_id[target[k]]] = target[k]

\* C20: every JSON-RPC reply to an envelope carries the envelope's id (null
\* when it has none), result and error alike, also while another command is
\* in flight; the parse-error reply carries id null.
C20_IdEcho ==
    \A k \in Cmds :
        /\ (cpc[k] = "done" /\ data[k].kind = "object") =>
               \A i \in 1..Len(reply[k]) :
                   IsRpcReply(reply[k][i]) => reply[k][i].id = data[k].id
        /\ (cpc[k] = "push" /\ data[k].kind = "object") => resp_obj[k].id = data[k].id
        /\ (cpc[k] = "done" /\ data[k].kind = "malformed") => reply[k][1].id = None

\* C20 witness: an error reply with the id of its envelope was returned while
\* another command, with another id, had its reply in flight.
C20_Witness ==
    \E j, k \in Cmds :
        /\ j # k
        /\ cpc[j] = "push" /\ resp_obj[j].id = data[j].id
        /\ cpc[k] = "done" /\ data[k].kind = "object"
        /\ Len(reply[k]) = 1 /\ IsError(reply[k][1], -32000)
        /\ reply[k][1].id = data[k].id
        /\ data[k].id # None /\ data[k].id # data[j].id

\* place of a category in the enumeration of the store
Place(cat) == CHOOSE i \in 1..Len(embeddings) : embeddings[i].cat = cat

\* similarity of a category to the input
SimOf(cat) == Similarity(input_emb, embeddings[Place(cat)].emb)

\* a ranks before b: more similar, or as similar and enumerated earlier
Before(a, b) ==
    \/ Greater(SimOf(a), SimOf(b))
    \/ ~Greater(SimOf(b), SimOf(a)) /\ Place(a) < Place(b)

Categories == {embeddings[i].cat : i \in 1..Len(embeddings)}

\* L is the list the contract of rank asks for
IsRanking(L) ==
    /\ Len(L) = (IF Len(embeddings) < 3 THEN Len(embeddings) ELSE 3)
    /\ \A i \in 1..Len(L) : L[i] \in Categories
    /\ \A i, j \in 1..Len(L) : i < j => (L[i] # L[j] /\ Before(L[i], L[j]))
    /\ \A c \in Categories :
           (\A i \in 1..Len(L) : L[i] # c) =>
               \A i \in 1..Len(L) : ~Greater(SimOf(c), SimOf(L[i])) /\ Before(L[i], c)

\* C17: rank returns the categories by descending similarity, equal ones in
\* enumeration order, cut to the first 3: min(3, number of categories) labels,
\* none twice, none omitted that is more similar than a returned one; and it
\* is the only list of that description, so the same inputs give the same list.
C17_Ranking ==
    rpc = "ranked" =>
        /\ IsRanking(top_categories)
        /\ \A L \in UNION {[1..m -> Categories] : m \in 0..3} :
               IsRanking(L) => L = top_categories

\* C17 witness: of four categories enumerated from the last label to the
\* first, three were returned, two of them equally similar, and the omitted
\* one is as similar as the last returned one.
C17_Witness ==
    /\ rpc = "ranked"
    /\ Len(embeddings) = 4 /\ embeddings[1].cat = Label(4)
    /\ Len(top_categories) = 3
    /\ ~Greater(SimOf(top_categories[1]), SimOf(top_categories[2]))
    /\ Greater(SimOf(top_categories[2]), SimOf(top_categories[3]))
    /\ \E c \in Categories :
           /\ \A i \in 1..3 : top_categories[i] # c
           /\ ~Greater(SimOf(top_categories[3]), SimOf(c))

\* the instruction blocks of the prompt, in order
Blocks(pr) == SelectSeq(pr, LAMBDA e : e.part = "instruction")

\* the prompt is the preamble, one block per ranked category in the order of
\* the ranking, each from the first example stored under the category, then
\* the input text
IsComposed(pr) ==
    LET k == Len(top_categories) IN
    /\ Len(pr) >= k + 3
    /\ pr[1].part = "task"
    /\ pr[2].part = "golden rules" /\ pr[2].text = GOLDEN_RULES
    /\ Len(Blocks(pr)) = k
    /\ \A i \in 1..k :
           LET first == patterns[Place(top_categories[i])].examples[1] IN
           /\ pr[2 + i].part = "instruction"
           /\ pr[2 + i].cat = top_categories[i]
           /\ pr[2 + i].description = first.description
           /\ Len(pr[2 + i].steps) = Len(first.steps)
           /\ \A n \in 1..Len(first.steps) : pr[2 + i].steps[n][2] = first.steps[n]
           /\ pr[2 + i].example_before = first.example_before
           /\ pr[2 + i].example_after = first.example_after
    /\ pr[k + 3].part = "input" /\ pr[k + 3].text = input_text
    /\ \A i \in 1..Len(pr) : pr[i].part = "input" => i = k + 3

\* C18: compose builds the preamble, then exactly one block per ranked
\* category in ranking order, each from the first example of the category,
\* then the input text; no other category appears and the pattern store (and
\* its embeddings) is left as it was.
C18_Compose ==
    [][(rpc = "ranked" /\ rpc' = "composed") =>
          /\ IsComposed(prompt')
          /\ patterns' = patterns
          /\ embeddings' = embeddings
          /\ top_categories' = top_categories]_vars

\* C18 witness: a prompt of three blocks whose order is not the store's, the
\* first of them for a category that has two examples.
C18_Witness ==
    /\ rpc = "composed"
    /\ Len(Blocks(prompt)) = 3
    /\ Place(Blocks(prompt)[1].cat) > Place(Blocks(prompt)[2].cat)
    /\ Len(patterns[Place(Blocks(prompt)[1].cat)].examples) = 2
    /\ Len(patterns) = 4

====
